---- MODULE Spec2Model ----
(***************************************************************************)
(* Model of email_classifier_template.py: EmailProcessor (validate_email,  *)
(* classify_email, generate_response), EmailAutomationSystem               *)
(* (process_email and the five category handlers) and run_demonstration.   *)
(*                                                                         *)
(* Texts exchanged with the language model are sequences of characters,    *)
(* so that str.strip() and str.lower() are computed.  An ASCII character   *)
(* is the one-character string; a character outside ASCII is written as    *)
(* the name of its code point ("U+212A").  The alphabet is ASCII, the      *)
(* whitespace characters outside ASCII, and the characters outside ASCII   *)
(* whose lower-case form contains an ASCII character (U+0130, U+212A):     *)
(* the lower-case form of any other character is outside ASCII, hence in   *)
(* no category name.  Python's None is the value None below, which is no   *)
(* text.  Email fields, log messages and template literals are opaque      *)
(* strings.                                                                *)
(***************************************************************************)
EXTENDS Integers, Sequences, FiniteSets, TLC

VARIABLES batch, i, results, finished, pc, classification, response, trace, llm,
          stub, history

vars == <<batch, i, results, finished, pc, classification, response, trace, llm,
          stub, history>>

\* ---------------------------------------------------------------- bounds
MaxBatch == 2
MaxPad == 1

\* ---------------------------------------------------------------- values
None == <<"None">>

\* The characters c with c.isspace(), which str.strip() removes: the ASCII
\* ones (tab, line feed, vertical tab, form feed, carriage return, the
\* separators 0x1c to 0x1f, space) and those outside ASCII.
AsciiWhitespace ==
    {" ", "\t", "\n", "\r", "\f", "", "", "", "", ""}

UnicodeWhitespace ==
    {"U+0085", "U+00A0", "U+1680", "U+2000", "U+2001", "U+2002", "U+2003",
     "U+2004", "U+2005", "U+2006", "U+2007", "U+2008", "U+2009", "U+200A",
     "U+2028", "U+2029", "U+202F", "U+205F", "U+3000"}

Whitespace == AsciiWhitespace \cup UnicodeWhitespace

UpperChars == <<"A","B","C","D","E","F","G","H","I","J","K","L","M",
                "N","O","P","Q","R","S","T","U","V","W","X","Y","Z">>

LowerChars == <<"a","b","c","d","e","f","g","h","i","j","k","l","m",
                "n","o","p","q","r","s","t","u","v","w","x","y","z">>

\* The lower-case form of one character, a text: KELVIN SIGN (U+212A)
\* becomes "k" and LATIN CAPITAL LETTER I WITH DOT ABOVE (U+0130) becomes
\* "i" followed by COMBINING DOT ABOVE (U+0307).
LowerChar(c) ==
    IF \E k \in 1..26 : UpperChars[k] = c
    THEN <<LowerChars[CHOOSE k \in 1..26 : UpperChars[k] = c]>>
    ELSE IF c = "U+212A" THEN <<"k">>
    ELSE IF c = "U+0130" THEN <<"i", "U+0307">>
    ELSE <<c>>

\* str.lower()
RECURSIVE Lower(_)
Lower(s) == IF s = <<>> THEN <<>> ELSE LowerChar(Head(s)) \o Lower(Tail(s))

RECURSIVE LStrip(_)
LStrip(s) ==
    IF s # <<>> /\ Head(s) \in Whitespace THEN LStrip(Tail(s)) ELSE s

RECURSIVE RStrip(_)
RStrip(s) ==
    IF s # <<>> /\ s[Len(s)] \in Whitespace
    THEN RStrip(SubSeq(s, 1, Len(s) - 1))
    ELSE s

\* str.strip()
Strip(s) == RStrip(LStrip(s))

required_fields == <<"id", "from", "subject", "body", "timestamp">>

Complaint == <<"c","o","m","p","l","a","i","n","t">>
Inquiry == <<"i","n","q","u","i","r","y">>
Feedback == <<"f","e","e","d","b","a","c","k">>
SupportRequest == <<"s","u","p","p","o","r","t","_","r","e","q","u","e","s","t">>
Other == <<"o","t","h","e","r">>

\* EmailProcessor.__init__: self.valid_categories
valid_categories == {Complaint, Inquiry, Feedback, SupportRequest, Other}

\* ---------------------------------------------------------------- inputs
\* An email is a mapping (a function whose domain is its set of keys).
Sample001 ==
    [k \in {"id", "from", "subject", "body", "timestamp"} |->
        CASE k = "id" -> "001"
          [] k = "from" -> "angry.customer@example.com"
          [] k = "subject" -> "Broken product received"
          [] k = "body" -> "arrived completely damaged, I demand a refund"
          [] k = "timestamp" -> "2024-03-15T10:30:00Z"]

\* A mapping with an additional key whose values are all empty strings.
BlankExtra ==
    [k \in {"id", "from", "subject", "body", "timestamp", "cc"} |-> ""]

Restrict(f, D) == [k \in D |-> f[k]]

RequiredSet == {required_fields[k] : k \in 1..Len(required_fields)}

KeySets ==
    {RequiredSet \ {f} : f \in RequiredSet} \cup {{}, {"id"}, {"id", "body"}}

Emails ==
    {Sample001, BlankExtra} \cup {Restrict(Sample001, D) : D \in KeySets}

Batches == UNION {[1..n -> Emails] : n \in 0..MaxBatch}

Pads == UNION {[1..n -> {" ", "\n"}] : n \in 0..MaxPad}

Padded(words) == {a \o w \o b : a \in Pads, w \in words, b \in Pads}

\* Texts the model may answer to the classification prompt.
ClassifyTexts ==
    valid_categories \cup
    { <<"o","t","h","e","r",".">>,
      <<"f","e","e","d"," ","b","a","c","k">>,
      <<>> } \cup
    { <<"">> \o Complaint \o <<"">>,
      <<"U+00A0">> \o Inquiry,
      <<"f","e","e","d","b","a","c","U+212A">>,
      <<"U+0130","n","q","u","i","r","y">> } \cup
    Padded({ <<"C","o","m","p","l","a","i","n","t">>,
             <<"I","N","Q","U","I","R","Y">>,
             <<"s","p","a","m">> })

\* Texts the model may answer to the refinement prompt.
RefineTexts ==
    { <<>>, <<" ">>,
      <<"","U+2028">> \o
          <<"W","e"," ","a","r","e"," ","O","n"," ","i","t">> \o
          <<"U+3000","">> } \cup
    Padded({ <<"W","e"," ","a","r","e"," ","O","n"," ","i","t">> })

\* What self.client.chat.completions.create(...) can do: raise, return None,
\* return a response without choices, return a message whose content is
\* None, or return a message with text content.
Outcome(kind, content) == [kind |-> kind, content |-> content]

Failures ==
    {Outcome(k, <<>>) : k \in {"raise", "none", "no_choices", "no_content"}}

ClassifyOutcomes == Failures \cup {Outcome("text", t) : t \in ClassifyTexts}

RefineOutcomes == Failures \cup {Outcome("text", t) : t \in RefineTexts}

\* ---------------------------------------------------------------- events
\* One call observed from outside the processor: a completion request, a
\* collaborator call or a logger.error call, with how it ended.
Ev(op, args, out) == [op |-> op, args |-> args, out |-> out]

CollaboratorOps ==
    {"create_urgent_ticket", "create_support_ticket", "log_customer_feedback",
     "send_complaint_response", "send_standard_response"}

\* ------------------------------------------------------- EmailProcessor
\* validate_email as it would be if it also rejected empty values.
validate_email_nonempty(email) ==
    \A k \in 1..Len(required_fields) :
        /\ required_fields[k] \in DOMAIN email
        /\ email[required_fields[k]] # ""

\* validate_email: every required field is a key of the mapping.
validate_email(email) ==
    \A k \in 1..Len(required_fields) : required_fields[k] \in DOMAIN email

\* The variable part of the classification prompt (email['body']).
ClassifyPrompt(email) == <<"classify", email["body"]>>

\* response.choices[0].message.content raises unless there is text content.
HasContent(o) == o.kind = "text"

\* classify_email as it would be without the .lower() call.
classify_email_nolower(email, o) ==
    IF "body" \notin DOMAIN email
    THEN [exc |-> "KeyError", ret |-> None, events |-> <<>>]
    ELSE
    LET prompt == ClassifyPrompt(email)
        failed == <<Ev("logger.error", <<"Failed to classify email">>, "ok")>>
    IN  IF o.kind = "raise"
        THEN [exc |-> "", ret |-> None,
              events |-> <<Ev("complete", prompt, "raise")>> \o failed]
        ELSE IF ~HasContent(o)
        THEN [exc |-> "", ret |-> None,
              events |-> <<Ev("complete", prompt, "ok")>> \o failed]
        ELSE LET result == Strip(o.content)
             IN  [exc |-> "",
                  ret |-> IF result \in valid_categories THEN result ELSE None,
                  events |-> <<Ev("complete", prompt, "ok")>>]

\* classify_email as it would be if it returned the text it normalised
\* without the membership test.
classify_email_raw(email, o) ==
    IF "body" \notin DOMAIN email
    THEN [exc |-> "KeyError", ret |-> None, events |-> <<>>]
    ELSE
    LET prompt == ClassifyPrompt(email)
        failed == <<Ev("logger.error", <<"Failed to classify email">>, "ok")>>
    IN  IF o.kind = "raise"
        THEN [exc |-> "", ret |-> None,
              events |-> <<Ev("complete", prompt, "raise")>> \o failed]
        ELSE IF ~HasContent(o)
        THEN [exc |-> "", ret |-> None,
              events |-> <<Ev("complete", prompt, "ok")>> \o failed]
        ELSE [exc |-> "", ret |-> Lower(Strip(o.content)),
              events |-> <<Ev("complete", prompt, "ok")>>]

\* classify_email as it would be if it repeated a request that raised.
classify_email_retry(email, o) ==
    IF "body" \notin DOMAIN email
    THEN [exc |-> "KeyError", ret |-> None, events |-> <<>>]
    ELSE
    LET prompt == ClassifyPrompt(email)
        failed == <<Ev("logger.error", <<"Failed to classify email">>, "ok")>>
    IN  IF o.kind = "raise"
        THEN [exc |-> "", ret |-> None,
              events |-> <<Ev("complete", prompt, "raise"),
                           Ev("complete", prompt, "raise")>> \o failed]
        ELSE IF ~HasContent(o)
        THEN [exc |-> "", ret |-> None,
              events |-> <<Ev("complete", prompt, "ok")>> \o failed]
        ELSE LET result == Lower(Strip(o.content))
             IN  [exc |-> "",
                  ret |-> IF result \in valid_categories THEN result ELSE None,
                  events |-> <<Ev("complete", prompt, "ok")>>]

\* classify_email(email) when the completion call ends as o: the exception
\* that escapes (exc, "" when none), the value returned (ret) and the calls
\* made (events).  The prompt is built before the try block.
classify_email(email, o) ==
    IF "body" \notin DOMAIN email
    THEN [exc |-> "KeyError", ret |-> None, events |-> <<>>]
    ELSE
    LET prompt == ClassifyPrompt(email)
        failed == <<Ev("logger.error", <<"Failed to classify email">>, "ok")>>
    IN  IF o.kind = "raise"
        THEN [exc |-> "", ret |-> None,
              events |-> <<Ev("complete", prompt, "raise")>> \o failed]
        ELSE IF ~HasContent(o)
        THEN [exc |-> "", ret |-> None,
              events |-> <<Ev("complete", prompt, "ok")>> \o failed]
        ELSE LET result == Lower(Strip(o.content))
             IN  [exc |-> "",
                  ret |-> IF result \in valid_categories THEN result ELSE None,
                  events |-> <<Ev("complete", prompt, "ok")>>]

\* A template is a sequence of parts: literal text, or a replacement field
\* {arg_name[index]} as str.format parses it.
Lit(text) == [kind |-> "lit", text |-> text, index |-> ""]
Field(arg, index) == [kind |-> "field", text |-> arg, index |-> index]

\* generate_response: response_templates
response_templates ==
    [c \in valid_categories |->
        CASE c = Complaint ->
                <<Lit("Dear user, We apologize ... Your issue number is "),
                  Field("email", "'email_id'"),
                  Lit(" One of our team members is looking into it ...")>>
          [] c = Inquiry ->
                <<Lit("Dear user, Thank you for contacting us ...")>>
          [] c = Feedback ->
                <<Lit("Dear user, We appreciate the time you took ...")>>
          [] c = SupportRequest ->
                <<Lit("Dear user, We received your request. Your support ticket number is support-"),
                  Field("email", "'email_id'"),
                  Lit(" and a member of the technical team will reach out ...")>>
          [] c = Other ->
                <<Lit("Dear user, We are processing your message ...")>>]

\* str.format(**kwargs): a field whose arg_name is no keyword raises
\* KeyError; an index applied to a str argument raises TypeError; otherwise
\* every field is replaced by its argument.
Format(template, kwargs) ==
    LET fields == {k \in 1..Len(template) : template[k].kind = "field"}
    IN  IF \E k \in fields : template[k].text \notin DOMAIN kwargs
        THEN [exc |-> "KeyError", value |-> <<>>]
        ELSE IF \E k \in fields : template[k].index # ""
        THEN [exc |-> "TypeError", value |-> <<>>]
        ELSE [exc |-> "",
              value |-> [k \in 1..Len(template) |->
                            IF k \in fields THEN kwargs[template[k].text]
                            ELSE template[k].text]]

\* generate_response(email, classification) when the completion call (if it
\* is reached) ends as o: the exception that escapes (exc, "" when none),
\* the value returned (ret) and the calls made (events).  Before the try
\* block it looks up the template, evaluates email['id'], formats the
\* template and evaluates email['body'] for the prompt, in that order.
generate_response(email, cls, o) ==
    IF cls \notin DOMAIN response_templates
    THEN [exc |-> "KeyError", ret |-> None, events |-> <<>>]
    ELSE IF "id" \notin DOMAIN email
    THEN [exc |-> "KeyError", ret |-> None, events |-> <<>>]
    ELSE
    LET base_template == response_templates[cls]
        filled_template == Format(base_template, [k \in {"email_id"} |-> email["id"]])
        prompt == <<"refine", email["body"], cls, filled_template.value>>
        failed == <<Ev("logger.error", <<"Failed to generate response">>, "ok")>>
    IN  IF filled_template.exc # ""
        THEN [exc |-> filled_template.exc, ret |-> None, events |-> <<>>]
        ELSE IF "body" \notin DOMAIN email
        THEN [exc |-> "KeyError", ret |-> None, events |-> <<>>]
        ELSE IF o.kind = "raise"
        THEN [exc |-> "", ret |-> None,
              events |-> <<Ev("complete", prompt, "raise")>> \o failed]
        ELSE IF ~HasContent(o)
        THEN [exc |-> "", ret |-> None,
              events |-> <<Ev("complete", prompt, "ok")>> \o failed]
        ELSE [exc |-> "", ret |-> Strip(o.content),
              events |-> <<Ev("complete", prompt, "ok")>>]

\* ------------------------------------------------ EmailAutomationSystem
Call(op, args) == [op |-> op, args |-> args]

\* The collaborator calls of each handler, in order.
_handle_complaint(email, resp) ==
    <<Call("create_urgent_ticket", <<email["id"], Complaint, email["body"]>>),
      Call("send_complaint_response", <<email["id"], resp>>)>>

\* _handle_inquiry as it would be if it sent an empty text.
_handle_inquiry_empty(email, resp) ==
    <<Call("send_standard_response", <<email["id"], <<>> >>)>>

_handle_inquiry(email, resp) ==
    <<Call("send_standard_response", <<email["id"], resp>>)>>

\* _handle_feedback as it would be with its two calls exchanged.
_handle_feedback_swapped(email, resp) ==
    <<Call("send_standard_response", <<email["id"], resp>>),
      Call("log_customer_feedback", <<email["id"], email["body"]>>)>>

_handle_feedback(email, resp) ==
    <<Call("log_customer_feedback", <<email["id"], email["body"]>>),
      Call("send_standard_response", <<email["id"], resp>>)>>

_handle_support_request(email, resp) ==
    <<Call("create_support_ticket", <<email["id"], email["body"]>>),
      Call("send_standard_response", <<email["id"], resp>>)>>

_handle_other(email, resp) ==
    <<Call("send_standard_response", <<email["id"], resp>>)>>

\* response_handlers as it would be with the "other" entry left out.
response_handlers_missing == {Complaint, Inquiry, Feedback, SupportRequest}

\* __init__: self.response_handlers (the keys of the mapping)
response_handlers == {Complaint, Inquiry, Feedback, SupportRequest, Other}

\* The lookup as it would be with the inquiry entry bound to the feedback
\* handler.
Handler_misbound(c, email, resp) ==
    CASE c = Complaint -> _handle_complaint(email, resp)
      [] c = Inquiry -> _handle_feedback(email, resp)
      [] c = Feedback -> _handle_feedback(email, resp)
      [] c = SupportRequest -> _handle_support_request(email, resp)
      [] c = Other -> _handle_other(email, resp)

\* self.response_handlers[classification](email, response)
Handler(c, email, resp) ==
    CASE c = Complaint -> _handle_complaint(email, resp)
      [] c = Inquiry -> _handle_inquiry(email, resp)
      [] c = Feedback -> _handle_feedback(email, resp)
      [] c = SupportRequest -> _handle_support_request(email, resp)
      [] c = Other -> _handle_other(email, resp)

\* Running a handler whose first n calls return; call n+1, if there is one,
\* raises and ends the handler.
RunHandler(calls, n) ==
    [k \in 1..(IF n < Len(calls) THEN n + 1 ELSE Len(calls)) |->
        Ev(calls[k].op, calls[k].args, IF k <= n THEN "ok" ELSE "raise")]

\* The dictionaries process_email returns.
Result(id, success, cls, resp) ==
    [email_id |-> id, success |-> success,
     classification |-> cls, response_sent |-> resp]

\* --------------------------------------------------------- state machine
\* batch: the list run_demonstration iterates over; i: how many of its
\* emails the loop has taken; results: the results list; pc: the position
\* in run_demonstration / process_email; classification, response: the
\* locals of process_email.  History: trace is the calls made so far by the
\* running process_email call, finished the calls made by the latest
\* process_email call once it has returned (empty while a call is running),
\* llm how the latest completion request of the running call ended.
\* stub fixes, in a deterministic run, how the completion endpoint answers
\* each prompt and which collaborators raise; history then keeps the calls
\* made by each returned process_email call.  In a free run (stub = Free)
\* every outcome is possible at every call and history stays empty.
Idle == Outcome("idle", <<>>)

Free == [det |-> FALSE, classify |-> <<>>, refine |-> <<>>, raising |-> {}]

\* The outcomes the completion request of classify_email can have.
ClassifyChoices(email) ==
    IF stub.det THEN {stub.classify[email["body"]]} ELSE ClassifyOutcomes

\* The outcomes the completion request of generate_response can have.
RefineChoices(email) ==
    IF stub.det THEN {stub.refine[email["body"]]} ELSE RefineOutcomes

\* The numbers n such that the first n calls of a handler can return and
\* call n+1 raise (n = Len(calls): all return).
RaisePoints(calls) ==
    IF stub.det
    THEN LET bad == {k \in 1..Len(calls) : calls[k].op \in stub.raising}
         IN  IF bad = {} THEN {Len(calls)}
             ELSE {(CHOOSE k \in bad : \A j \in bad : k <= j) - 1}
    ELSE 0..Len(calls)

Email == batch[i]

Init ==
    /\ batch \in Batches
    /\ i = 0
    /\ results = <<>>
    /\ finished = <<>>
    /\ pc = "loop"
    /\ classification = None
    /\ response = None
    /\ trace = <<>>
    /\ llm = Idle
    /\ stub = Free
    /\ history = <<>>

\* process_email returns r to the loop, which appends it to results.
Return(r, tr) ==
    /\ results' = Append(results, r)
    /\ finished' = tr
    /\ pc' = "loop"
    /\ classification' = None
    /\ response' = None
    /\ trace' = <<>>
    /\ llm' = Idle
    /\ history' = IF stub.det THEN Append(history, tr) ELSE history
    /\ stub' = stub

\* The except clause as it would be if it reported the partial results.
Except_keep(exc, tr) ==
    Return(Result(Email["id"], FALSE, classification, response),
           tr \o <<Ev("logger.error", <<"Failed to process email", exc>>, "ok")>>)

\* process_email, except clause: log and return the failure result.
Except(exc, tr) ==
    Return(Result(Email["id"], FALSE, None, None),
           tr \o <<Ev("logger.error", <<"Failed to process email", exc>>, "ok")>>)

\* process_email as it would be if it kept the results by email id and
\* answered a repeated id from them.
ProcessValid_cached ==
    /\ pc = "loop"
    /\ i < Len(batch)
    /\ validate_email(batch[i + 1])
    /\ i' = i + 1
    /\ LET seen == {k \in 1..Len(results) :
                        results[k].email_id = batch[i + 1]["id"]}
       IN  IF seen # {}
           THEN /\ Return(results[CHOOSE k \in seen : TRUE], <<>>)
                /\ UNCHANGED batch
           ELSE /\ pc' = "classify"
                /\ finished' = <<>>
                /\ UNCHANGED <<batch, results, classification, response,
                               trace, llm, stub, history>>

\* process_email is entered with the next email, which is valid.
ProcessValid ==
    /\ pc = "loop"
    /\ i < Len(batch)
    /\ validate_email(batch[i + 1])
    /\ i' = i + 1
    /\ pc' = "classify"
    /\ finished' = <<>>
    /\ UNCHANGED <<batch, results, classification, response, trace, llm, stub, history>>

\* process_email is entered with the next email, which is invalid and has an
\* id: the failure result is returned.
ProcessInvalid ==
    /\ pc = "loop"
    /\ i < Len(batch)
    /\ ~validate_email(batch[i + 1])
    /\ "id" \in DOMAIN batch[i + 1]
    /\ i' = i + 1
    /\ Return(Result(batch[i + 1]["id"], FALSE, None, None),
              <<Ev("logger.error", <<"Invalid email structure">>, "ok")>>)
    /\ UNCHANGED batch

\* process_email is entered with the next email, which has no id: the
\* error is logged and email['id'] raises KeyError while the failure
\* result is built, outside the try block; the exception leaves
\* process_email.
ProcessInvalidNoId ==
    /\ pc = "loop"
    /\ i < Len(batch)
    /\ ~validate_email(batch[i + 1])
    /\ "id" \notin DOMAIN batch[i + 1]
    /\ i' = i + 1
    /\ pc' = "crashed"
    /\ trace' = <<Ev("logger.error", <<"Invalid email structure">>, "ok")>>
    /\ UNCHANGED <<batch, results, finished, classification, response, llm, stub, history>>

\* run_demonstration's loop takes the next email, which has no id: the
\* logger.info call before process_email evaluates email['id'], which
\* raises KeyError; process_email is not entered and the exception leaves
\* run_demonstration.
AnnounceRaises ==
    /\ pc = "loop"
    /\ i < Len(batch)
    /\ "id" \notin DOMAIN batch[i + 1]
    /\ i' = i + 1
    /\ pc' = "aborted"
    /\ finished' = <<>>
    /\ UNCHANGED <<batch, results, classification, response, trace, llm, stub, history>>

\* classification = self.processor.classify_email(email); an exception
\* leaving classify_email is handled by the except clause.
Classify ==
    /\ pc = "classify"
    /\ \E o \in ClassifyChoices(Email) :
        LET r == classify_email(Email, o)
        IN  IF r.exc # ""
            THEN /\ Except(r.exc, trace \o r.events)
                 /\ UNCHANGED <<batch, i>>
            ELSE /\ classification' = r.ret
                 /\ trace' = trace \o r.events
                 /\ llm' = o
                 /\ pc' = "check"
                 /\ UNCHANGED <<batch, i, results, finished, response, stub, history>>

\* if classification not in self.response_handlers: return the failure
\* result carrying classification.
RejectClassification ==
    /\ pc = "check"
    /\ classification \notin response_handlers
    /\ Return(Result(Email["id"], FALSE, classification, None),
              trace \o <<Ev("logger.error", <<"Invalid classification">>, "ok")>>)
    /\ UNCHANGED <<batch, i>>

\* process_email as it would be without the test of the classification.
AcceptClassification_unchecked ==
    /\ pc = "check"
    /\ pc' = "generate"
    /\ llm' = Idle
    /\ UNCHANGED <<batch, i, results, finished, classification, response, trace, stub, history>>

AcceptClassification ==
    /\ pc = "check"
    /\ classification \in response_handlers
    /\ pc' = "generate"
    /\ llm' = Idle
    /\ UNCHANGED <<batch, i, results, finished, classification, response, trace, stub, history>>

\* response = self.processor.generate_response(email, classification)
GenerateReturns ==
    /\ pc = "generate"
    /\ \E o \in RefineChoices(Email) :
        LET r == generate_response(Email, classification, o)
        IN  /\ r.exc = ""
            /\ response' = r.ret
            /\ trace' = trace \o r.events
            /\ llm' = o
    /\ pc' = "dispatch"
    /\ UNCHANGED <<batch, i, results, finished, classification, stub, history>>

\* generate_response raises: the except clause of process_email runs.
GenerateRaises ==
    /\ pc = "generate"
    /\ \E o \in RefineChoices(Email) :
        LET r == generate_response(Email, classification, o)
        IN  /\ r.exc # ""
            /\ Except(r.exc, trace \o r.events)
    /\ UNCHANGED <<batch, i>>

\* self.response_handlers[classification](email, response) returns and the
\* success result is returned.
DispatchReturns ==
    /\ pc = "dispatch"
    /\ LET calls == Handler(classification, Email, response)
       IN  /\ Len(calls) \in RaisePoints(calls)
           /\ Return(Result(Email["id"], TRUE, classification, response),
                     trace \o RunHandler(calls, Len(calls)))
    /\ UNCHANGED <<batch, i>>

\* The handler call as it would be if a collaborator's exception were
\* swallowed and the success result returned.
DispatchRaises_swallowed ==
    /\ pc = "dispatch"
    /\ LET calls == Handler(classification, Email, response)
       IN  \E n \in RaisePoints(calls) \ {Len(calls)} :
              Return(Result(Email["id"], TRUE, classification, response),
                     trace \o RunHandler(calls, n))
    /\ UNCHANGED <<batch, i>>

\* A collaborator raises inside the handler: the except clause runs.
DispatchRaises ==
    /\ pc = "dispatch"
    /\ LET calls == Handler(classification, Email, response)
       IN  \E n \in RaisePoints(calls) \ {Len(calls)} :
              Except("CollaboratorError", trace \o RunHandler(calls, n))
    /\ UNCHANGED <<batch, i>>

\* run_demonstration after the loop, with at least one result: the summary
\* is built, printed and returned.
Summary ==
    /\ pc = "loop"
    /\ i = Len(batch)
    /\ results # <<>>
    /\ pc' = "done"
    /\ UNCHANGED <<batch, i, results, finished, classification, response, trace, llm, stub, history>>

\* run_demonstration after the loop, with no result: pd.DataFrame([]) has
\* no columns, so selecting the four summary columns raises KeyError and
\* the exception leaves run_demonstration.
SummaryRaises ==
    /\ pc = "loop"
    /\ i = Len(batch)
    /\ results = <<>>
    /\ pc' = "aborted"
    /\ UNCHANGED <<batch, i, results, finished, classification, response, trace, llm, stub, history>>

\* run_demonstration(): process_email is called on each email of the batch
\* in turn, after the email's id is logged.
Next ==
    \/ AnnounceRaises
    \/ ProcessValid
    \/ ProcessInvalid
    \/ Classify
    \/ RejectClassification
    \/ AcceptClassification
    \/ GenerateReturns
    \/ GenerateRaises
    \/ DispatchReturns
    \/ DispatchRaises
    \/ Summary
    \/ SummaryRaises

Spec == Init /\ [][Next]_vars

\* process_email called on each email of the batch in turn by a caller
\* that does nothing else, and stops at the first exception.
NextP ==
    \/ ProcessValid
    \/ ProcessInvalid
    \/ ProcessInvalidNoId
    \/ Classify
    \/ RejectClassification
    \/ AcceptClassification
    \/ GenerateReturns
    \/ GenerateRaises
    \/ DispatchReturns
    \/ DispatchRaises

SpecP == Init /\ [][NextP]_vars

\* Deterministic runs: the completion endpoint is a stub answering by the
\* email body of the prompt, and a collaborator either always raises or
\* never does.
Bodies == {e["body"] : e \in {m \in Emails : validate_email(m)}}

StubClassify ==
    {Outcome("raise", <<>>), Outcome("text", Complaint),
     Outcome("text", Inquiry), Outcome("text", Feedback)}

StubRefine ==
    {Outcome("raise", <<>>),
     Outcome("text", <<"W","e"," ","a","r","e"," ","O","n"," ","i","t">>)}

Stubs ==
    {[det |-> TRUE, classify |-> c, refine |-> r, raising |-> x] :
        c \in [Bodies -> StubClassify], r \in [Bodies -> StubRefine],
        x \in {{}, {"send_standard_response"}}}

EmailsD ==
    {Sample001, BlankExtra, Restrict(Sample001, {"id"}), Restrict(Sample001, {})}

BatchesD == UNION {[1..n -> EmailsD] : n \in 0..(MaxBatch + 1)}

InitD ==
    /\ batch \in BatchesD
    /\ i = 0
    /\ results = <<>>
    /\ finished = <<>>
    /\ pc = "loop"
    /\ classification = None
    /\ response = None
    /\ trace = <<>>
    /\ llm = Idle
    /\ stub \in Stubs
    /\ history = <<>>

SpecD == InitD /\ [][Next]_vars

\* A handler called on its own, as self.response_handlers[c](email, response)
\* with a valid email, any registered c and any response: pc = "handler"
\* before the call, "handler_returned" after it returned, "handler_raised"
\* when an exception left it.
InitH ==
    /\ batch \in {<<e>> : e \in {m \in Emails : validate_email(m)}}
    /\ i = 1
    /\ results = <<>>
    /\ finished = <<>>
    /\ pc = "handler"
    /\ classification \in response_handlers
    /\ response \in {None} \cup RefineTexts
    /\ trace = <<>>
    /\ llm = Idle
    /\ stub = Free
    /\ history = <<>>

HandlerReturns ==
    /\ pc = "handler"
    /\ LET calls == Handler(classification, Email, response)
       IN  trace' = RunHandler(calls, Len(calls))
    /\ pc' = "handler_returned"
    /\ UNCHANGED <<batch, i, results, finished, classification, response, llm, stub, history>>

HandlerRaises ==
    /\ pc = "handler"
    /\ LET calls == Handler(classification, Email, response)
       IN  \E n \in 0..(Len(calls) - 1) : trace' = RunHandler(calls, n)
    /\ pc' = "handler_raised"
    /\ UNCHANGED <<batch, i, results, finished, classification, response, llm, stub, history>>

NextH == HandlerReturns \/ HandlerRaises

SpecH == InitH /\ [][NextH]_vars

TypeOK ==
    /\ batch \in Batches
    /\ i \in 0..Len(batch)
    /\ pc \in {"loop", "classify", "check", "generate", "dispatch", "done",
              "crashed", "aborted"}
    /\ Len(results) <= i

\* ----------------------------------------------------------- properties
\* The Category enumeration of the data model.
Category ==
    { <<"c","o","m","p","l","a","i","n","t">>,
      <<"i","n","q","u","i","r","y">>,
      <<"f","e","e","d","b","a","c","k">>,
      <<"s","u","p","p","o","r","t","_","r","e","q","u","e","s","t">>,
      <<"o","t","h","e","r">> }

Last(s) == s[Len(s)]

Events(tr, ops) == SelectSeq(tr, LAMBDA e : e.op \in ops)

Completions(tr) == Events(tr, {"complete"})

CollaboratorCalls(tr) == Events(tr, CollaboratorOps)

Logged(tr, msg) ==
    \E k \in 1..Len(tr) : tr[k].op = "logger.error" /\ tr[k].args[1] = msg

Raising(tr) ==
    \E k \in 1..Len(tr) : tr[k].op \in CollaboratorOps /\ tr[k].out = "raise"

\* x and y are the same character up to letter case, y being a lower-case
\* ASCII character.
LowersTo(x, y) ==
    \/ x = y
    \/ \E k \in 1..26 : UpperChars[k] = x /\ LowerChars[k] = y
    \/ x = "U+212A" /\ y = "k"

\* Text t is category c surrounded by whitespace, in any letter case.
NormalizesTo(t, c) ==
    \E p \in 0..Len(t) :
        /\ p + Len(c) <= Len(t)
        /\ \A k \in 1..p : t[k] \in Whitespace
        /\ \A k \in 1..Len(c) : LowersTo(t[p + k], c[k])
        /\ \A k \in (p + Len(c) + 1)..Len(t) : t[k] \in Whitespace

\* The latest process_email call has returned: results[i] is its result and
\* finished the calls it made.
Returned == pc \in {"loop", "done"} /\ i >= 1 /\ Len(results) = i

UniformFailure(email) == Result(email["id"], FALSE, None, None)

\* C1: every email lacking a required key (the id included) gets a result
\* with success false, classification null and response_sent null, without
\* an exception, and with no completion request and no collaborator call.
C1_InvalidEmailGetsFailureResult ==
    /\ \A k \in 1..i :
          ~validate_email(batch[k]) =>
              /\ k <= Len(results)
              /\ results[k].success = FALSE
              /\ results[k].classification = None
              /\ results[k].response_sent = None
    /\ (Returned /\ ~validate_email(batch[i])) =>
          /\ Completions(finished) = <<>>
          /\ CollaboratorCalls(finished) = <<>>

\* C2: every result with success true has a classification among the five
\* categories and a response_sent that is a non-empty string.
C2_SuccessHasCategoryAndResponse ==
    \A k \in 1..Len(results) :
        results[k].success =>
            /\ results[k].classification \in Category
            /\ results[k].response_sent # None
            /\ results[k].response_sent # <<>>

\* C3: for a valid email and any behaviour of the completion call,
\* classify_email raises nothing and returns null or one of the five
\* categories; it returns c exactly when the call returned text that is c
\* after trimming whitespace and lower-casing.
C3_ClassifyReturnsCategoryOrNull ==
    /\ pc = "classify" =>
          \A o \in ClassifyOutcomes : classify_email(Email, o).exc = ""
    /\ pc = "check" =>
          /\ classification \in Category \cup {None}
          /\ \A c \in Category :
                classification = c <=>
                    (llm.kind = "text" /\ NormalizesTo(llm.content, c))

C3_Witness ==
    /\ pc = "check"
    /\ llm = Outcome("text", <<" ","C","o","m","p","l","a","i","n","t","\n">>)
    /\ classification = <<"c","o","m","p","l","a","i","n","t">>

\* C4: when classify_email has returned null or a value outside the five
\* categories, process_email returns a result with success false at once:
\* the call has made one completion request (the classification) and no
\* collaborator call.
C4_BadClassificationStopsPipeline ==
    [][(pc = "check" /\ classification \notin Category) =>
          /\ pc' = "loop"
          /\ Len(results') = Len(results) + 1
          /\ Last(results').success = FALSE
          /\ Len(Completions(finished')) = 1
          /\ Completions(finished') = Completions(trace)
          /\ CollaboratorCalls(finished') = <<>>]_vars

C4_Witness ==
    /\ Returned
    /\ validate_email(batch[i])
    /\ results[i].success = FALSE
    /\ Logged(finished, "Invalid classification")
    /\ Len(Completions(finished)) = 1
    /\ CollaboratorCalls(finished) = <<>>

\* C5: when the classification is "complaint" the response is generated,
\* and with a non-empty response and collaborators that return, the result
\* is success with classification "complaint" and that response, after
\* exactly create_urgent_ticket then send_complaint_response, both with the
\* email's id, and no other collaborator call.
C5_ComplaintDispatch ==
    [][/\ (pc = "generate" /\ classification = Complaint) =>
             /\ pc' = "dispatch"
             /\ (llm'.kind = "text" /\ Strip(llm'.content) # <<>>) =>
                    response' = Strip(llm'.content)
       /\ (/\ pc = "dispatch"
           /\ classification = Complaint
           /\ response \notin {None, <<>>}
           /\ pc' = "loop"
           /\ ~Raising(finished')) =>
             /\ Last(results') = Result(Email["id"], TRUE, Complaint, response)
             /\ Len(CollaboratorCalls(finished')) = 2
             /\ CollaboratorCalls(finished')[1].op = "create_urgent_ticket"
             /\ CollaboratorCalls(finished')[1].args[1] = Email["id"]
             /\ CollaboratorCalls(finished')[2].op = "send_complaint_response"
             /\ CollaboratorCalls(finished')[2].args[1] = Email["id"]]_vars

\* C6: for a valid email no exception leaves process_email; whenever one
\* reaches its except clause (raised by a step or by a collaborator after
\* category and response were computed) the result is the email's id with
\* success false, classification null and response_sent null.
C6_ExceptionsBecomeUniformFailure ==
    /\ pc = "crashed" => ~validate_email(batch[i])
    /\ (/\ Returned
        /\ validate_email(batch[i])
        /\ \/ Raising(finished)
           \/ Logged(finished, "Failed to process email")) =>
             results[i] = UniformFailure(batch[i])

C6_Witness ==
    /\ Returned
    /\ validate_email(batch[i])
    /\ Len(CollaboratorCalls(finished)) = 2
    /\ CollaboratorCalls(finished)[1].out = "ok"
    /\ CollaboratorCalls(finished)[2].out = "raise"
    /\ results[i] = UniformFailure(batch[i])

\* C7: a batch is always processed to its end: no exception leaves
\* run_demonstration, and the results are one per email taken, in input
\* order.
C7_BatchRunsToTheEnd ==
    /\ pc # "aborted"
    /\ pc = "done" => Len(results) = Len(batch)
    /\ \A k \in 1..Len(results) :
          /\ "id" \in DOMAIN batch[k]
          /\ results[k].email_id = batch[k]["id"]

\* C8: for each of the five categories generate_response fills the
\* template without an exception, makes exactly one completion request and
\* returns the trimmed text of the model, or null when the request fails.
C8_GenerateResponseNeverRaises ==
    [][(pc = "generate" /\ classification \in Category) =>
          /\ pc' = "dispatch"
          /\ Len(Completions(trace')) = Len(Completions(trace)) + 1
          /\ \/ llm'.kind = "text" /\ response' = Strip(llm'.content)
             \/ llm'.kind # "text" /\ response' = None]_vars

\* C9 (as claimed): when the classification call returns the unrecognized
\* text "spam", the result has success false, response_sent null and a
\* classification field holding "spam".
C9_SpamPassedThrough ==
    [][(pc = "check" /\ llm = Outcome("text", <<"s","p","a","m">>)) =>
          /\ Len(results') = Len(results) + 1
          /\ Last(results') =
                Result(Email["id"], FALSE, <<"s","p","a","m">>, None)]_vars

\* C9 (amended): when the classification call returns the unrecognized
\* text "spam", the result has success false, response_sent null and
\* classification null: classify_email has replaced the text by null.
C9_SpamBecomesNull ==
    [][(pc = "check" /\ llm = Outcome("text", <<"s","p","a","m">>)) =>
          /\ Len(results') = Len(results) + 1
          /\ Last(results') = Result(Email["id"], FALSE, None, None)]_vars

C9_Witness ==
    /\ pc = "check"
    /\ llm = Outcome("text", <<"s","p","a","m">>)
    /\ classification = None
    /\ validate_email(Email)

\* C10: every result with success false has classification null and
\* response_sent null, on the validation, classification and exception
\* paths alike.
C10_FailureHasNullFields ==
    \A k \in 1..Len(results) :
        ~results[k].success =>
            /\ results[k].classification = None
            /\ results[k].response_sent = None

C10_Witness ==
    /\ Returned
    /\ Len(results) = 2
    /\ ~validate_email(batch[1])
    /\ validate_email(batch[2])
    /\ Logged(finished, "Invalid classification")
    /\ \A k \in 1..2 : ~results[k].success

\* C12 (as claimed): the completion endpoint is invoked exactly twice, for
\* classification and then for refinement, by every call on a valid email,
\* never for an invalid email, and never more than twice.
C12_TwoCompletionsPerValidEmail ==
    /\ Len(Completions(trace)) <= 2
    /\ pc = "crashed" => Completions(trace) = <<>>
    /\ (Returned /\ ~validate_email(batch[i])) => Completions(finished) = <<>>
    /\ (Returned /\ validate_email(batch[i])) =>
          /\ Len(Completions(finished)) = 2
          /\ Completions(finished)[1].args[1] = "classify"
          /\ Completions(finished)[2].args[1] = "refine"

\* C12 (amended): the completion endpoint is invoked at most twice per
\* call, never for an invalid email and never twice for the same prompt:
\* once for classification by every call on a valid email, and a second
\* time, for refinement, exactly by the calls that go on to dispatch (not
\* when the classification is rejected, nor when generate_response raises
\* before its request).
C12_AtMostTwoCompletions ==
    /\ Len(Completions(trace)) <= 2
    /\ pc = "crashed" => Completions(trace) = <<>>
    /\ (Returned /\ ~validate_email(batch[i])) => Completions(finished) = <<>>
    /\ (Returned /\ validate_email(batch[i])) =>
          /\ Len(Completions(finished)) \in {1, 2}
          /\ Completions(finished)[1].args[1] = "classify"
          /\ Len(Completions(finished)) = 2 =>
                Completions(finished)[2].args[1] = "refine"
          /\ Len(Completions(finished)) = 2 <=>
                CollaboratorCalls(finished) # <<>>

C12_Witness ==
    /\ Returned
    /\ validate_email(batch[i])
    /\ Len(Completions(finished)) = 2
    /\ Completions(finished)[1].args[1] = "classify"
    /\ Completions(finished)[2].args[1] = "refine"
    /\ Completions(finished)[2].out = "raise"

\* The five keys an EmailRecord must have.
RequiredKeys == {"id", "from", "subject", "body", "timestamp"}

\* C13: validate_email is true exactly when the five keys are present,
\* whatever the values and whatever other keys there are; it makes no call
\* and raises nothing: process_email enters the pipeline exactly for the
\* mappings having the five keys, with nothing done yet.
C13_ValidIffAllKeysPresent ==
    /\ \A k \in 1..Len(batch) :
          validate_email(batch[k]) <=> RequiredKeys \subseteq DOMAIN batch[k]
    /\ pc \in {"classify", "check", "generate", "dispatch"} =>
          RequiredKeys \subseteq DOMAIN batch[i]
    /\ pc = "classify" => trace = <<>>
    /\ (\/ pc = "crashed"
        \/ Returned /\ Logged(finished, "Invalid email structure")) =>
          ~(RequiredKeys \subseteq DOMAIN batch[i])

C13_Witness ==
    /\ pc = "classify"
    /\ DOMAIN batch[i] = RequiredKeys \cup {"cc"}
    /\ \A k \in DOMAIN batch[i] : batch[i][k] = ""
    /\ trace = <<>>

\* The collaborator calls each category stands for, in order.
ExpectedCalls(c, email, resp) ==
    CASE c = <<"c","o","m","p","l","a","i","n","t">> ->
            <<[op |-> "create_urgent_ticket",
               args |-> <<email["id"], <<"c","o","m","p","l","a","i","n","t">>,
                          email["body"]>>],
              [op |-> "send_complaint_response", args |-> <<email["id"], resp>>]>>
      [] c = <<"i","n","q","u","i","r","y">> ->
            <<[op |-> "send_standard_response", args |-> <<email["id"], resp>>]>>
      [] c = <<"f","e","e","d","b","a","c","k">> ->
            <<[op |-> "log_customer_feedback",
               args |-> <<email["id"], email["body"]>>],
              [op |-> "send_standard_response", args |-> <<email["id"], resp>>]>>
      [] c = <<"s","u","p","p","o","r","t","_","r","e","q","u","e","s","t">> ->
            <<[op |-> "create_support_ticket",
               args |-> <<email["id"], email["body"]>>],
              [op |-> "send_standard_response", args |-> <<email["id"], resp>>]>>
      [] c = <<"o","t","h","e","r">> ->
            <<[op |-> "send_standard_response", args |-> <<email["id"], resp>>]>>

\* tr is the first n calls of exp, made in order, the last of which raised
\* when raised is true; all others returned.
IsRunOf(tr, exp, n, raised) ==
    /\ Len(tr) = n
    /\ n <= Len(exp)
    /\ \A k \in 1..n :
          /\ tr[k].op = exp[k].op
          /\ tr[k].args = exp[k].args
          /\ tr[k].out = IF raised /\ k = n THEN "raise" ELSE "ok"

\* C14: a handler that returns has made exactly the calls of its category,
\* in order; a handler that an exception leaves has made those calls up to
\* the one that raised and none after it.
C14_HandlersMakeTheirCalls ==
    LET exp == ExpectedCalls(classification, batch[1], response)
    IN  /\ pc = "handler_returned" => IsRunOf(trace, exp, Len(exp), FALSE)
        /\ pc = "handler_raised" =>
              \E n \in 1..Len(exp) : IsRunOf(trace, exp, n, TRUE)

C14_Witness ==
    /\ pc = "handler_raised"
    /\ classification = <<"f","e","e","d","b","a","c","k">>
    /\ Len(trace) = 1
    /\ trace[1].op = "log_customer_feedback"
    /\ trace[1].out = "raise"

\* The moves of pc that follow the order validate, classify, generate
\* response, dispatch within a call, each step at most once (and those of
\* the caller between two calls).
StepOrder ==
    { <<"loop", "loop">>, <<"loop", "classify">>, <<"loop", "crashed">>,
      <<"loop", "aborted">>, <<"loop", "done">>, <<"classify", "check">>, <<"check", "loop">>,
      <<"check", "generate">>, <<"generate", "loop">>,
      <<"generate", "dispatch">>, <<"dispatch", "loop">> }

\* C15: the steps of a call follow the order validate, classify, generate
\* response, dispatch and none runs twice; collaborator calls are made
\* only by the dispatch step, after both completion requests, and they are
\* the calls of the one handler of the category classify_email returned in
\* this call.
C15_OneHandlerAfterGenerate ==
    [][/\ <<pc, pc'>> \in StepOrder
       /\ CollaboratorCalls(trace') = <<>>
       /\ (pc # "dispatch" /\ pc' = "loop") => CollaboratorCalls(finished') = <<>>
       /\ (pc \in {"check", "generate"} /\ pc' \in {"generate", "dispatch"}) =>
             classification' = classification
       /\ pc = "dispatch" =>
             /\ Len(Completions(finished')) = 2
             /\ Completions(finished')[1].args[1] = "classify"
             /\ Completions(finished')[2].args[1] = "refine"
             /\ Completions(finished')[2].args[3] = classification
             /\ LET exp == ExpectedCalls(classification, Email, response)
                    got == CollaboratorCalls(finished')
                IN  \/ IsRunOf(got, exp, Len(exp), FALSE)
                    \/ \E n \in 1..Len(exp) : IsRunOf(got, exp, n, TRUE)]_vars

C15_Witness ==
    /\ Returned
    /\ results[i].success
    /\ results[i].classification = <<"i","n","q","u","i","r","y">>
    /\ Len(CollaboratorCalls(finished)) = 1
    /\ CollaboratorCalls(finished)[1].op = "send_standard_response"
    /\ Len(Completions(finished)) = 2

\* C16: a result with success true is returned only after the handler of
\* its classification made all its calls and none raised; a call that a
\* raising collaborator ended returns the failure result, the calls made
\* before the one that raised having taken place.
C16_SuccessOnlyAfterHandlerCompleted ==
    /\ (Returned /\ results[i].success) =>
          LET exp == ExpectedCalls(results[i].classification, batch[i],
                                   results[i].response_sent)
          IN  IsRunOf(CollaboratorCalls(finished), exp, Len(exp), FALSE)
    /\ (Returned /\ Raising(finished)) =>
          /\ results[i] = UniformFailure(batch[i])
          /\ LET got == CollaboratorCalls(finished)
             IN  \A k \in 1..Len(got) : got[k].out = "raise" <=> k = Len(got)

C16_Witness ==
    /\ Returned
    /\ results[i] = UniformFailure(batch[i])
    /\ Len(CollaboratorCalls(finished)) = 2
    /\ CollaboratorCalls(finished)[1].op = "log_customer_feedback"
    /\ CollaboratorCalls(finished)[1].out = "ok"
    /\ CollaboratorCalls(finished)[2].op = "send_standard_response"
    /\ CollaboratorCalls(finished)[2].out = "raise"

SendOps == {"send_complaint_response", "send_standard_response"}

\* C17: the text given to send_complaint_response / send_standard_response
\* is the value generate_response returned, which is also the response_sent
\* of a success result; a null response does not stop dispatch: after a
\* failed refinement request the handler runs with null.
C17_SentTextIsGeneratedResponse ==
    [][/\ (pc = "generate" /\ pc' # "loop" /\ llm'.kind # "text") =>
             (pc' = "dispatch" /\ response' = None)
       /\ pc = "dispatch" =>
             /\ CollaboratorCalls(finished') # <<>>
             /\ \A k \in 1..Len(finished') :
                   finished'[k].op \in SendOps => finished'[k].args[2] = response
             /\ Last(results').success =>
                   /\ Last(results').response_sent = response
                   /\ \E k \in 1..Len(finished') : finished'[k].op \in SendOps]_vars

C17_Witness ==
    /\ Returned
    /\ results[i].success
    /\ results[i].response_sent = None
    /\ Completions(finished)[2].out = "raise"
    /\ \E k \in 1..Len(finished) :
          /\ finished[k].op = "send_standard_response"
          /\ finished[k].args[2] = None
          /\ finished[k].out = "ok"

\* C11: with a deterministic stub and deterministic collaborators, two
\* process_email calls on the same email, whatever was processed between
\* them, return the same result and make the same collaborator calls.
C11_SameEmailSameOutcome ==
    \A k1, k2 \in 1..Len(results) :
        batch[k1] = batch[k2] =>
            /\ results[k1] = results[k2]
            /\ CollaboratorCalls(history[k1]) = CollaboratorCalls(history[k2])

C11_Witness ==
    /\ Len(results) = 3
    /\ batch[1] = batch[3]
    /\ batch[2] # batch[1]
    /\ validate_email(batch[1])
    /\ validate_email(batch[2])
    /\ results[1].success
    /\ ~results[2].success
    /\ results[3] = results[1]
    /\ CollaboratorCalls(history[3]) # <<>>

====
